---- MODULE Spec2Model ----
(***************************************************************************)
(* Lifecycle of StripeElementDirective (element.directive.ts).             *)
(*                                                                         *)
(* The directive builds, in its constructor, the pipeline                  *)
(*   element$ = init$.pipe(take(1), switchMap(o => create(o).pipe(tap)),   *)
(*                         shareReplay(1))                                 *)
(* and subscribes to it once.  The model keeps the state of every stage of *)
(* that pipeline: the observers of the init$ Subject, the inner            *)
(* subscription switchMap holds on the Observable returned by              *)
(* elements.create(), and the ReplaySubject shareReplay(1) multicasts      *)
(* through (buffer, observers, hasError / isComplete flags; refCount is    *)
(* false, so unsubscribing observers never disconnects the source, and an  *)
(* errored source is re-subscribed by the next subscriber).                *)
(* The Observable returned by elements.create() is the environment: it may *)
(* emit handles, complete, or fail.                                        *)
(***************************************************************************)
EXTENDS Naturals, Sequences, FiniteSets

\* Bounds of the exploration
MaxOps == 4          \* calls made on the directive (init, focus, blur, clear, ngOnDestroy)
MaxHandles == 2      \* handles the creation Observable emits over its life

Options == {"styleA", "styleB"}
ForwardOps == {"focus", "blur", "clear"}

VARIABLES
  ctor,         \* "none" (not constructed yet), "ok", "threw"
  elements,     \* was the StripeElementsDirective container supplied
  initObs,      \* number of take(1) observers subscribed to init$
  createCalls,  \* options of every elements.create() invocation, in order
  inner,        \* switchMap's inner subscription: "none", "active", "completed", "errored"
  hasError,     \* shareReplay: the source failed, next subscriber reconnects
  isComplete,   \* shareReplay: the source completed
  replay,       \* ReplaySubject(1) buffer: 0 (empty) or a handle
  observers,    \* observers of the ReplaySubject, in subscription order
  subClosed,    \* this.sub.closed
  instance,     \* this._instance: 0 (undefined) or a handle
  emitted,      \* handles emitted so far; handle ids are 1..emitted
  calls,        \* every call made on a handle, in order
  hist,         \* every call made on the directive, in order
  threw,        \* the most recent call on the directive (or its constructor) threw
  _ready,       \* this._ready: "undefined" or "true"
  _focused,     \* this._focused: "undefined", "true" or "false"
  _value,       \* this._value: <<>> (undefined) or <<v>>, v the latest ChangeEvent
  faulted,      \* ids of the calls whose destroy() on the handle raised a fault
  thrown,       \* ids of the calls on the directive that threw to their caller
  reported      \* ids of the calls whose fault was caught by the subscriber and
                \* handed to the host's error reporting

vars == <<ctor, elements, initObs, createCalls, inner, hasError, isComplete,
          replay, observers, subClosed, instance, emitted, calls, hist, threw,
          _ready, _focused, _value, faulted, thrown, reported>>

pipeline == <<initObs, createCalls, inner, hasError, isComplete, replay>>

flags == <<_ready, _focused, _value>>

faultvars == <<faulted, thrown, reported>>

----------------------------------------------------------------------------
\* Helpers

Call(h, m, id) == [h |-> h, m |-> m, id |-> id]

\* The observer registered by the constructor's this.element$.subscribe()
SubObserver == [op |-> "sub", id |-> 0, once |-> FALSE]

\* The observer registered by forward(): element$.pipe(take(1)).subscribe(fn)
TakeOneObserver(op, id) == [op |-> op, id |-> id, once |-> TRUE]

RECURSIVE SelectNotOnce(_)
SelectNotOnce(obs) ==
  IF obs = <<>> THEN <<>>
  ELSE IF Head(obs).once THEN SelectNotOnce(Tail(obs))
       ELSE <<Head(obs)>> \o SelectNotOnce(Tail(obs))

RECURSIVE RemoveSub(_)
RemoveSub(obs) ==
  IF obs = <<>> THEN <<>>
  ELSE IF Head(obs).op = "sub" THEN RemoveSub(Tail(obs))
       ELSE <<Head(obs)>> \o RemoveSub(Tail(obs))

\* Notification of the observers in reverse subscription order
RECURSIVE DeliverCalls_LIFO(_, _)
DeliverCalls_LIFO(h, obs) ==
  IF obs = <<>> THEN <<>>
  ELSE IF Head(obs).op = "sub" THEN DeliverCalls_LIFO(h, Tail(obs))
       ELSE DeliverCalls_LIFO(h, Tail(obs)) \o <<Call(h, Head(obs).op, Head(obs).id)>>

\* ReplaySubject.next(h): every observer is notified in subscription order;
\* the constructor's observer has no next handler, a forward() observer runs
\* fn(h) and, being behind take(1), completes.
RECURSIVE DeliverCalls(_, _)
DeliverCalls(h, obs) ==
  IF obs = <<>> THEN <<>>
  ELSE IF Head(obs).op = "sub" THEN DeliverCalls(h, Tail(obs))
       ELSE <<Call(h, Head(obs).op, Head(obs).id)>> \o DeliverCalls(h, Tail(obs))

\* What a call on the directive leaves in the history: whether no handle was
\* published when it was made, and whether create had been requested by then.
HistEntry(op, opt) ==
  [op |-> op, opt |-> opt, queued |-> (instance = 0), afterInit |-> (createCalls # <<>>)]

----------------------------------------------------------------------------
Init ==
  /\ ctor = "none"
  /\ elements = FALSE
  /\ initObs = 0
  /\ createCalls = <<>>
  /\ inner = "none"
  /\ hasError = FALSE
  /\ isComplete = FALSE
  /\ replay = 0
  /\ observers = <<>>
  /\ subClosed = FALSE
  /\ instance = 0
  /\ emitted = 0
  /\ calls = <<>>
  /\ hist = <<>>
  /\ threw = FALSE
  /\ _ready = "undefined"
  /\ _focused = "undefined"
  /\ _value = <<>>
  /\ faulted = {}
  /\ thrown = {}
  /\ reported = {}

\* Constructor that builds element$ but does not subscribe to it: nothing
\* observes init$
Constructor_NoSubscribe(e) ==
  /\ ctor = "none"
  /\ elements' = e
  /\ IF ~e
     THEN ctor' = "threw" /\ threw' = TRUE
     ELSE ctor' = "ok" /\ threw' = FALSE
  /\ UNCHANGED <<initObs, observers, createCalls, inner, hasError, isComplete, replay,
                 subClosed, instance, emitted, calls, hist>>
  /\ UNCHANGED <<flags, faultvars>>

\* Constructor without the container check: the pipeline is built anyway
Constructor_NoCheck(e) ==
  /\ ctor = "none"
  /\ elements' = e
  /\ ctor' = "ok"
  /\ threw' = FALSE
  /\ initObs' = 1
  /\ observers' = <<SubObserver>>
  /\ UNCHANGED <<createCalls, inner, hasError, isComplete, replay, subClosed,
                 instance, emitted, calls, hist>>
  /\ UNCHANGED <<flags, faultvars>>

\* new StripeElementDirective(elementType, elements, ref)
Constructor(e) ==
  /\ ctor = "none"
  /\ elements' = e
  /\ IF ~e
     THEN /\ ctor' = "threw"
          /\ threw' = TRUE
          /\ UNCHANGED <<initObs, observers>>
     ELSE /\ ctor' = "ok"
          /\ threw' = FALSE
          /\ initObs' = 1                  \* shareReplay connects: take(1) observes init$
          /\ observers' = <<SubObserver>>  \* this.sub = this.element$.subscribe()
  /\ UNCHANGED <<createCalls, inner, hasError, isComplete, replay, subClosed,
                 instance, emitted, calls, hist>>
  /\ UNCHANGED <<flags, faultvars>>

\* init(options): init$.next(options).  Every take(1) observer of init$ lets
\* the value through, completes, and its switchMap subscribes to
\* elements.create(elementType, options).
init(options) ==
  /\ ctor = "ok"
  /\ Len(hist) < MaxOps
  /\ IF initObs > 0
     THEN /\ createCalls' = createCalls \o [i \in 1..initObs |-> options]
          /\ initObs' = 0
          /\ inner' = "active"
     ELSE UNCHANGED <<createCalls, initObs, inner>>
  /\ hist' = Append(hist, HistEntry("init", options))
  /\ threw' = FALSE
  /\ UNCHANGED <<ctor, elements, hasError, isComplete, replay, observers,
                 subClosed, instance, emitted, calls>>
  /\ UNCHANGED <<flags, faultvars>>

\* tap callback that mounts the element before hooking its events
TapCalls_MountFirst(prev, elm) ==
  (IF prev # 0 THEN <<Call(prev, "destroy", 0)>> ELSE <<>>)
  \o <<Call(elm, "mount", 0), Call(elm, "on-ready", 0), Call(elm, "on-focus", 0),
       Call(elm, "on-blur", 0)>>

\* tap callback that forgets elm.mount(ref.nativeElement)
TapCalls_NoMount(prev, elm) ==
  (IF prev # 0 THEN <<Call(prev, "destroy", 0)>> ELSE <<>>)
  \o <<Call(elm, "on-ready", 0), Call(elm, "on-focus", 0), Call(elm, "on-blur", 0)>>

\* tap callback that does not dispose of the previous instance
TapCalls_NoDispose(prev, elm) ==
  <<Call(elm, "on-ready", 0), Call(elm, "on-focus", 0), Call(elm, "on-blur", 0),
    Call(elm, "mount", 0)>>

\* The calls the tap callback makes on the handles when elm is emitted
TapCalls(prev, elm) ==
  (IF prev # 0 THEN <<Call(prev, "destroy", 0)>> ELSE <<>>)
  \o <<Call(elm, "on-ready", 0), Call(elm, "on-focus", 0), Call(elm, "on-blur", 0),
       Call(elm, "mount", 0)>>

\* Emission whose tap callback also resets _ready for the new element
CreateEmits_ResetsReady ==
  /\ ctor = "ok"
  /\ inner = "active"
  /\ emitted < MaxHandles
  /\ LET elm == emitted + 1 IN
       /\ emitted' = elm
       /\ calls' = calls \o TapCalls(instance, elm) \o DeliverCalls(elm, observers)
       /\ instance' = elm
       /\ replay' = elm
       /\ observers' = SelectNotOnce(observers)
  /\ _ready' = "false"
  /\ UNCHANGED <<ctor, elements, initObs, createCalls, inner, hasError, isComplete,
                 subClosed, hist, threw>>
  /\ UNCHANGED <<_focused, _value, faultvars>>

\* The Observable returned by elements.create() emits a handle: tap runs,
\* then shareReplay's ReplaySubject buffers it and notifies its observers.
CreateEmits ==
  /\ ctor = "ok"
  /\ inner = "active"
  /\ emitted < MaxHandles
  /\ LET elm == emitted + 1 IN
       /\ emitted' = elm
       /\ calls' = calls \o TapCalls(instance, elm) \o DeliverCalls(elm, observers)
       /\ instance' = elm
       /\ replay' = elm
       /\ observers' = SelectNotOnce(observers)
  /\ UNCHANGED <<ctor, elements, initObs, createCalls, inner, hasError, isComplete,
                 subClosed, hist, threw>>
  /\ UNCHANGED <<flags, faultvars>>

\* The Observable returned by elements.create() completes: init$'s take(1)
\* has completed already, so switchMap completes and shareReplay completes
\* its subject; every observer completes and is dropped.
CreateCompletes ==
  /\ ctor = "ok"
  /\ inner = "active"
  /\ inner' = "completed"
  /\ isComplete' = TRUE
  /\ observers' = <<>>
  /\ subClosed' = TRUE
  /\ UNCHANGED <<ctor, elements, initObs, createCalls, hasError, replay,
                 instance, emitted, calls, hist, threw>>
  /\ UNCHANGED <<flags, faultvars>>

\* The Observable returned by elements.create() fails: shareReplay records
\* hasError and errors its subject; every observer is dropped.
CreateFails ==
  /\ ctor = "ok"
  /\ inner = "active"
  /\ inner' = "errored"
  /\ hasError' = TRUE
  /\ observers' = <<>>
  /\ subClosed' = TRUE
  /\ UNCHANGED <<ctor, elements, initObs, createCalls, isComplete, replay,
                 instance, emitted, calls, hist, threw>>
  /\ UNCHANGED <<flags, faultvars>>

\* forward(fn), the calls it makes at once: on the published instance, or on
\* the buffered value the ReplaySubject replays on subscription.
ForwardCalls(op, id) ==
  IF instance # 0 THEN <<Call(instance, op, id)>>
  ELSE IF ~hasError /\ replay # 0 THEN <<Call(replay, op, id)>>
  ELSE <<>>

\* forward(fn) without the short circuit on this.instance, subscribing a
\* source that does not replay
ForwardObservers_AlwaysQueue(op, id) ==
  IF hasError /\ instance = 0 THEN <<TakeOneObserver(op, id)>>
  ELSE IF isComplete THEN observers
  ELSE Append(observers, TakeOneObserver(op, id))

\* forward(fn), the observers of the ReplaySubject it leaves
ForwardObservers(op, id) ==
  IF instance # 0 THEN observers
  ELSE IF hasError THEN <<TakeOneObserver(op, id)>>   \* a new ReplaySubject
  ELSE IF replay # 0 \/ isComplete THEN observers     \* served or completed at once
  ELSE Append(observers, TakeOneObserver(op, id))

\* forward(fn), its effect on the source: subscribing element$ after the
\* source failed makes shareReplay subscribe the source again, which puts a
\* new take(1) observer on init$ behind a new, empty ReplaySubject.
ForwardSource ==
  IF instance = 0 /\ hasError
  THEN /\ hasError' = FALSE
       /\ initObs' = initObs + 1
       /\ inner' = "none"
       /\ replay' = 0
       /\ UNCHANGED <<createCalls, isComplete>>
  ELSE UNCHANGED pipeline

\* focus(), blur(), clear()
forward(op) ==
  /\ ctor = "ok"
  /\ Len(hist) < MaxOps
  /\ LET id == Len(hist) + 1 IN
       /\ calls' = calls \o ForwardCalls(op, id)
       /\ observers' = ForwardObservers(op, id)
  /\ ForwardSource
  /\ hist' = Append(hist, HistEntry(op, ""))
  /\ threw' = FALSE
  /\ UNCHANGED <<ctor, elements, subClosed, instance, emitted>>
  /\ UNCHANGED <<flags, faultvars>>

\* ngOnDestroy that forgets the instance once it has disposed of it
ngOnDestroy_ClearsInstance ==
  /\ ctor = "ok"
  /\ Len(hist) < MaxOps
  /\ LET id == Len(hist) + 1 IN
       /\ calls' = calls \o ForwardCalls("destroy", id)
       /\ observers' = RemoveSub(ForwardObservers("destroy", id))
  /\ ForwardSource
  /\ subClosed' = TRUE
  /\ instance' = 0
  /\ hist' = Append(hist, HistEntry("ngOnDestroy", ""))
  /\ threw' = FALSE
  /\ UNCHANGED <<ctor, elements, emitted>>
  /\ UNCHANGED <<flags, faultvars>>

\* ngOnDestroy that calls this.instance.destroy() without going through
\* forward(): a TypeError when no instance is published
ngOnDestroy_Direct ==
  /\ ctor = "ok"
  /\ Len(hist) < MaxOps
  /\ IF instance = 0
     THEN /\ threw' = TRUE
          /\ UNCHANGED <<calls, observers, subClosed>>
     ELSE /\ threw' = FALSE
          /\ calls' = Append(calls, Call(instance, "destroy", Len(hist) + 1))
          /\ observers' = RemoveSub(observers)
          /\ subClosed' = TRUE
  /\ hist' = Append(hist, HistEntry("ngOnDestroy", ""))
  /\ UNCHANGED pipeline
  /\ UNCHANGED <<ctor, elements, instance, emitted>>
  /\ UNCHANGED <<flags, faultvars>>

\* ngOnDestroy(): forward(instance => instance.destroy()); this.sub.unsubscribe()
ngOnDestroy ==
  /\ ctor = "ok"
  /\ Len(hist) < MaxOps
  /\ LET id == Len(hist) + 1 IN
       /\ calls' = calls \o ForwardCalls("destroy", id)
       /\ observers' = RemoveSub(ForwardObservers("destroy", id))
  /\ ForwardSource
  /\ subClosed' = TRUE
  /\ hist' = Append(hist, HistEntry("ngOnDestroy", ""))
  /\ threw' = FALSE
  /\ UNCHANGED <<ctor, elements, instance, emitted>>
  /\ UNCHANGED <<flags, faultvars>>

Next ==
  \/ \E e \in BOOLEAN : Constructor(e)
  \/ \E o \in Options : init(o)
  \/ \E op \in ForwardOps : forward(op)
  \/ ngOnDestroy
  \/ CreateEmits
  \/ CreateCompletes
  \/ CreateFails

Spec == Init /\ [][Next]_vars

TypeOK ==
  /\ ctor \in {"none", "ok", "threw"}
  /\ elements \in BOOLEAN
  /\ initObs \in 0..MaxOps
  /\ inner \in {"none", "active", "completed", "errored"}
  /\ instance \in 0..emitted
  /\ replay \in 0..emitted
  /\ emitted \in 0..MaxHandles
  /\ Len(hist) <= MaxOps

----------------------------------------------------------------------------
\* The handle's notifications, the subclass' change handler and disable()

Events == {"ready", "focus", "blur"}

\* What a handle reports through the subclass' 'change' handler
ChangeEvents == [empty : BOOLEAN, complete : BOOLEAN, error : {"undefined", "card_error"}]

\* JavaScript truthiness of an error field
Truthy(x) == x \notin {"undefined", "null"}

\* The read-only views.  _value is <<>> while undefined, <<v>> once stored.
value == _value
empty_Strict == (_value # <<>>) /\ _value[1].empty
empty == (_value = <<>>) \/ _value[1].empty
complete == (_value # <<>>) /\ _value[1].complete
error == IF (_value # <<>>) /\ Truthy(_value[1].error) THEN _value[1].error ELSE "null"
ready == _ready = "true"
focused == _focused = "true"
disabled == FALSE

\* Handlers of which the 'blur' one does not reset _focused
Notify_BlurIgnored(h, ev) ==
  /\ ctor = "ok"
  /\ Len(hist) < MaxOps
  /\ \E i \in DOMAIN calls : calls[i].h = h /\ calls[i].m = "on-ready"
  /\ _ready' = IF ev = "ready" THEN "true" ELSE _ready
  /\ _focused' = IF ev = "focus" THEN "true" ELSE _focused
  /\ hist' = Append(hist, HistEntry("notify", ev))
  /\ UNCHANGED <<ctor, elements, pipeline, observers, subClosed, instance, emitted,
                 calls, threw, _value, faultvars>>

\* Handle h fires ev: the handler registered by the tap callback runs
Notify(h, ev) ==
  /\ ctor = "ok"
  /\ Len(hist) < MaxOps
  /\ \E i \in DOMAIN calls : calls[i].h = h /\ calls[i].m = "on-ready"
  /\ _ready' = IF ev = "ready" THEN "true" ELSE _ready
  /\ _focused' = IF ev = "focus" THEN "true" ELSE IF ev = "blur" THEN "false" ELSE _focused
  /\ hist' = Append(hist, HistEntry("notify", ev))
  /\ UNCHANGED <<ctor, elements, pipeline, observers, subClosed, instance, emitted,
                 calls, threw, _value, faultvars>>

\* The handle reports a change: the handler a concrete element registers
\* stores the event (this._value = value)
StoreChange(v) ==
  /\ ctor = "ok"
  /\ Len(hist) < MaxOps
  /\ instance # 0
  /\ _value' = <<v>>
  /\ hist' = Append(hist, HistEntry("change", v))
  /\ UNCHANGED <<ctor, elements, pipeline, observers, subClosed, instance, emitted,
                 calls, threw, _ready, _focused, faultvars>>

\* disable that passes the flag down to the published element
disable_Updates(flag) ==
  /\ ctor = "ok"
  /\ Len(hist) < MaxOps
  /\ calls' = IF instance # 0
              THEN Append(calls, Call(instance, "update", Len(hist) + 1))
              ELSE calls
  /\ hist' = Append(hist, HistEntry("disable", IF flag THEN "true" ELSE "false"))
  /\ threw' = FALSE
  /\ UNCHANGED <<ctor, elements, pipeline, observers, subClosed, instance, emitted,
                 flags, faultvars>>

\* disable(_: boolean) {}
disable(flag) ==
  /\ ctor = "ok"
  /\ Len(hist) < MaxOps
  /\ hist' = Append(hist, HistEntry("disable", IF flag THEN "true" ELSE "false"))
  /\ threw' = FALSE
  /\ UNCHANGED <<ctor, elements, pipeline, observers, subClosed, instance, emitted,
                 calls, flags, faultvars>>

NextAll ==
  \/ Next
  \/ \E h \in 1..emitted, ev \in Events : Notify(h, ev)
  \/ \E v \in ChangeEvents : StoreChange(v)
  \/ \E flag \in BOOLEAN : disable(flag)

SpecAll == Init /\ [][NextAll]_vars

\* The controller with the handle's notifications only
NextFlags ==
  \/ Next
  \/ \E h \in 1..emitted, ev \in Events : Notify(h, ev)

SpecFlags == Init /\ [][NextFlags]_vars

\* The controller with the change handler only
NextValue ==
  \/ Next
  \/ \E v \in ChangeEvents : StoreChange(v)

SpecValue == Init /\ [][NextValue]_vars

----------------------------------------------------------------------------
\* Faults raised by the handle's destroy() during disposal

\* ngOnDestroy that catches the fault of destroy() and goes on to unsubscribe
ngOnDestroyThrows_Caught ==
  /\ ctor = "ok"
  /\ Len(hist) < MaxOps
  /\ instance # 0
  /\ LET id == Len(hist) + 1 IN
       /\ calls' = Append(calls, Call(instance, "destroy", id))
       /\ faulted' = faulted \cup {id}
  /\ threw' = FALSE
  /\ observers' = RemoveSub(observers)
  /\ subClosed' = TRUE
  /\ hist' = Append(hist, HistEntry("ngOnDestroy", ""))
  /\ UNCHANGED <<ctor, elements, pipeline, instance, emitted, flags, thrown, reported>>

\* ngOnDestroy() with a published instance whose destroy() raises a fault:
\* forward() calls fn(this.instance) directly, the fault leaves ngOnDestroy
\* and this.sub.unsubscribe() is not reached.
ngOnDestroyThrows ==
  /\ ctor = "ok"
  /\ Len(hist) < MaxOps
  /\ instance # 0
  /\ LET id == Len(hist) + 1 IN
       /\ calls' = Append(calls, Call(instance, "destroy", id))
       /\ faulted' = faulted \cup {id}
       /\ thrown' = thrown \cup {id}
  /\ threw' = TRUE
  /\ hist' = Append(hist, HistEntry("ngOnDestroy", ""))
  /\ UNCHANGED <<ctor, elements, pipeline, observers, subClosed, instance, emitted,
                 flags, reported>>

\* The ngOnDestroy calls waiting behind take(1) for the creation to resolve
DestroyObservers ==
  {observers[i].id : i \in {j \in DOMAIN observers : observers[j].op = "destroy"}}

\* The creation emits a handle and destroy() raises a fault in some of the
\* deferred disposals: the callback runs in a subscriber's next handler,
\* which catches the fault and hands it to the host's error reporting; the
\* remaining observers are still notified.
CreateEmitsDestroyThrows ==
  /\ ctor = "ok"
  /\ inner = "active"
  /\ emitted < MaxHandles
  /\ \E S \in (SUBSET DestroyObservers) \ {{}} :
       /\ faulted' = faulted \cup S
       /\ reported' = reported \cup S
  /\ LET elm == emitted + 1 IN
       /\ emitted' = elm
       /\ calls' = calls \o TapCalls(instance, elm) \o DeliverCalls(elm, observers)
       /\ instance' = elm
       /\ replay' = elm
       /\ observers' = SelectNotOnce(observers)
  /\ UNCHANGED <<ctor, elements, initObs, createCalls, inner, hasError, isComplete,
                 subClosed, hist, threw, flags, thrown>>

NextFaults ==
  \/ Next
  \/ ngOnDestroyThrows
  \/ CreateEmitsDestroyThrows

SpecFaults == Init /\ [][NextFaults]_vars

----------------------------------------------------------------------------
\* Vocabulary of the properties

HandleOps == {"focus", "blur", "clear", "destroy"}

\* Positions of the calls on the directive / on the handles
HistIdx(op) == {k \in DOMAIN hist : hist[k].op = op}
CallIdx(h, m) == {i \in DOMAIN calls : calls[i].h = h /\ calls[i].m = m}
CallsOfOp(k) == {i \in DOMAIN calls : calls[i].id = k}

Handles == 1..emitted
Mounted(h) == CallIdx(h, "mount") # {}
Destroyed(h) == CallIdx(h, "destroy") # {}
Live == {h \in Handles : Mounted(h) /\ ~Destroyed(h)}

LastOp == IF hist = <<>> THEN "none" ELSE hist[Len(hist)].op

\* The creation source has ended and nothing can start it again
Quiescent == inner \in {"completed", "errored"} /\ initObs = 0

----------------------------------------------------------------------------
\* C1: only the first init call has an effect: create is invoked once, with
\* the options of the first init call, later init calls invoke nothing, and
\* no init call raises an error.
C1_OnlyFirstInitCreates ==
  /\ HistIdx("init") = {} => createCalls = <<>>
  /\ HistIdx("init") # {} =>
       LET first == CHOOSE k \in HistIdx("init") : \A j \in HistIdx("init") : k <= j
       IN createCalls = <<hist[first].opt>>
  /\ LastOp = "init" => ~threw

\* C2: create is invoked at most once per controller, whatever focus, blur,
\* clear and ngOnDestroy calls are made around it.
C2_CreateAtMostOnce == Len(createCalls) <= 1

\* C3: a focus, blur or clear call made while no handle is published reaches
\* no handle before the creation resolves and, once it has resolved, has been
\* forwarded exactly once, to the resolved handle.
C3_QueuedOpForwardedOnce ==
  \A k \in DOMAIN hist :
    (hist[k].op \in ForwardOps /\ hist[k].queued) =>
      IF emitted = 0 THEN CallsOfOp(k) = {}
      ELSE /\ Cardinality(CallsOfOp(k)) = 1
           /\ \A i \in CallsOfOp(k) : calls[i].h = 1 /\ calls[i].m = hist[k].op

\* Positions of the calls of method m on handle h in a call log cs
IdxIn(cs, h, m) == {i \in DOMAIN cs : cs[i].h = h /\ cs[i].m = m}

\* The ngOnDestroy calls made after init while no handle was published
PendingDisposals ==
  {k \in HistIdx("ngOnDestroy") : hist[k].queued /\ hist[k].afterInit}

\* C4: when ngOnDestroy was called after init and before the creation
\* resolved, the step that resolves the creation leaves the handle with
\* exactly one destroy call, made after its mount, and the constructor's
\* subscription closed.
C4_DeferredDestroyOnce ==
  [][ (emitted = 0 /\ emitted' = 1 /\ PendingDisposals # {}) =>
        /\ Cardinality(IdxIn(calls', 1, "destroy")) = 1
        /\ \A d \in IdxIn(calls', 1, "destroy") :
             \E m \in IdxIn(calls', 1, "mount") : m < d
        /\ subClosed' ]_vars

\* The handles an ngOnDestroy call destroyed at once, as the published instance
DisposedPublished ==
  {h \in Handles : \E i \in CallIdx(h, "destroy") :
     calls[i].id # 0 /\ ~hist[calls[i].id].queued}

\* C5: a handle disposed of after the creation resolved has received exactly
\* one destroy call in total, however many ngOnDestroy calls were made, and
\* no ngOnDestroy call throws.
C5_DisposeAfterResolveOnce ==
  /\ \A h \in DisposedPublished : Cardinality(CallIdx(h, "destroy")) = 1
  /\ LastOp = "ngOnDestroy" => ~threw

\* C9: once ngOnDestroy has been called and the creation pipeline has come to
\* rest, no handle is left mounted and not destroyed.
C9_NoHandleLeakedAfterDisposal ==
  (HistIdx("ngOnDestroy") # {} /\ Quiescent) => Live = {}

\* C6: a controller constructed without its container does not exist: the
\* constructor throws, no pipeline is built or subscribed, create is never
\* invoked and no handle is mounted.
C6_NoContainerFailsFast ==
  (ctor # "none" /\ ~elements) =>
    /\ ctor = "threw"
    /\ threw
    /\ initObs = 0
    /\ observers = <<>>
    /\ createCalls = <<>>
    /\ inner = "none"
    /\ calls = <<>>
    /\ instance = 0

C6_Witness == ctor = "threw" /\ ~elements

\* C7: every focus, blur, clear or destroy call on a handle comes after the
\* mount of that handle.
C7_NoCallBeforeMount ==
  \A i \in DOMAIN calls :
    calls[i].m \in HandleOps =>
      \E j \in DOMAIN calls : j < i /\ calls[j].h = calls[i].h /\ calls[j].m = "mount"

\* A queued operation and a queued disposal have been delivered to the first
\* handle, and the tap callback has disposed of it for a second handle.
C7_Witness ==
  /\ emitted = 2
  /\ \E i \in DOMAIN calls :
       calls[i].m \in ForwardOps /\ calls[i].id # 0 /\ hist[calls[i].id].queued
  /\ \E i \in CallIdx(1, "destroy") : calls[i].id # 0 /\ hist[calls[i].id].queued
  /\ \E i \in CallIdx(1, "destroy") : calls[i].id = 0

\* C8: at most one handle is live (mounted and not destroyed), and every
\* handle mounted earlier has been destroyed before another one is mounted.
C8_ExclusiveOwnership ==
  /\ Cardinality(Live) <= 1
  /\ \A i \in DOMAIN calls :
       calls[i].m = "mount" =>
         \A j \in 1..(i - 1) :
           (calls[j].m = "mount" /\ calls[j].h # calls[i].h) =>
             \E d \in IdxIn(calls, calls[j].h, "destroy") : j < d /\ d < i

\* The creation pipeline emitted a second handle while the first was live
C8_Witness ==
  /\ emitted = 2
  /\ Live = {2}
  /\ instance = 2
  /\ \A i \in CallIdx(1, "destroy") : calls[i].id = 0

\* C10: as long as the creation has not resolved, ngOnDestroy returns without
\* throwing and no handle has received a destroy call (nor any other call).
C10_DisposeSafeUnresolved ==
  emitted = 0 =>
    /\ \A i \in DOMAIN calls : calls[i].m # "destroy"
    /\ LastOp = "ngOnDestroy" => (~threw /\ subClosed)

\* ngOnDestroy was called on the unconfigured controller and again after
\* create was requested, and create completed without emitting.
C10_Witness ==
  /\ emitted = 0
  /\ inner = "completed"
  /\ LastOp = "ngOnDestroy"
  /\ \E k \in HistIdx("ngOnDestroy") : ~hist[k].afterInit
  /\ \E k \in HistIdx("ngOnDestroy") : hist[k].afterInit

----------------------------------------------------------------------------
\* Claims about the flags (SpecFlags), the views (SpecValue) and disable()
\* (SpecAll)

\* Positions of the notifications of the given kinds in the history
NoteIdx(evs) == {k \in DOMAIN hist : hist[k].op = "notify" /\ hist[k].opt \in evs}

\* The largest element of a non-empty set of positions
Last(S) == CHOOSE k \in S : \A j \in S : j <= k

\* C11: ready is true exactly when a 'ready' notification has been received,
\* and no step of the controller turns it back to false.
C11_ReadyMonotonic ==
  /\ [](ready <=> NoteIdx({"ready"}) # {})
  /\ [][ready => ready']_vars

\* 'ready' was received from the first handle; the handle was replaced, then
\* disposed of, and ready still reads true.
C11_Witness ==
  /\ ready
  /\ emitted = 2
  /\ HistIdx("ngOnDestroy") # {}
  /\ \A k \in NoteIdx({"ready"}) : \E j \in HistIdx("ngOnDestroy") : k < j

\* C12: focused is true exactly when the most recent focus/blur notification
\* was 'focus'; calls of focus() and blur() do not enter into it.
C12_FocusedIsLastNotification ==
  focused <=>
    /\ NoteIdx({"focus", "blur"}) # {}
    /\ hist[Last(NoteIdx({"focus", "blur"}))].opt = "focus"

\* The notifications focus, blur, focus were received in that order
C12_Witness ==
  /\ focused
  /\ \E a, b, c \in DOMAIN hist :
       /\ a < b /\ b < c
       /\ NoteIdx({"focus", "blur"}) = {a, b, c}
       /\ hist[a].opt = "focus" /\ hist[b].opt = "blur" /\ hist[c].opt = "focus"

\* C13: empty, complete and error are projections of the latest ChangeEvent:
\* true, false and null before any, and its fields afterwards (null for an
\* event without error).
C13_ViewsProjectLatestChange ==
  IF HistIdx("change") = {}
  THEN empty = TRUE /\ complete = FALSE /\ error = "null"
  ELSE LET v == hist[Last(HistIdx("change"))].opt IN
         /\ empty = v.empty
         /\ complete = v.complete
         /\ error = (IF v.error = "undefined" THEN "null" ELSE v.error)

\* Two ChangeEvents were stored, the later one complete, not empty, with an error
C13_Witness ==
  /\ Cardinality(HistIdx("change")) = 2
  /\ ~empty /\ complete /\ error = "card_error"
  /\ \E k \in HistIdx("change") : hist[k].opt.empty /\ hist[k].opt.error = "undefined"

\* C16: disable(flag) changes nothing: handle, creation pipeline, pending
\* queue, ChangeEvent, flags and the calls made on the handles stay as they
\* are; disabled reads false throughout.
C16_DisableIsNoOp ==
  /\ [](~disabled)
  /\ [][ (hist' # hist /\ hist'[Len(hist')].op = "disable") =>
           (/\ UNCHANGED <<instance, pipeline, observers, subClosed, emitted, calls>>
            /\ UNCHANGED <<flags, faultvars>>
            /\ ~threw') ]_vars

\* disable was called with both flag values, before and after the handle
\* was published and its flags set
C16_Witness ==
  /\ \E k \in HistIdx("disable") : hist[k].opt = "true" /\ hist[k].queued
  /\ \E k \in HistIdx("disable") : hist[k].opt = "false" /\ ~hist[k].queued
  /\ ready
  /\ LastOp = "disable"

----------------------------------------------------------------------------
\* Claim about faults of destroy(), under SpecFaults

\* C18 as stated: every fault of destroy() during disposal reaches the caller
\* of the ngOnDestroy call it belongs to.
C18_FaultReachesDisposer == faulted \subseteq thrown

\* C18 as amended: no fault is swallowed; the fault of a destroy() made on the
\* published handle leaves ngOnDestroy, the fault of a deferred destroy()
\* surfaces when the creation resolves, in the subscriber, and never in the
\* ngOnDestroy call, which has returned.
C18_FaultNotIntercepted ==
  \A k \in faulted :
    IF hist[k].queued
    THEN k \in reported /\ k \notin thrown
    ELSE k \in thrown /\ k \notin reported

\* One disposal faulted on the published handle, another one deferred
C18_Witness ==
  /\ \E k \in faulted : hist[k].queued
  /\ \E k \in faulted : ~hist[k].queued

----------------------------------------------------------------------------
\* Claims about creation, forwarding and the published instance, under Spec

\* C14: once init has been called, create has been requested, and a handle
\* the creation emits is mounted and published, with no call on the
\* directive other than init.
C14_EagerSubscriptionSuffices ==
  (hist # <<>> /\ \A k \in DOMAIN hist : hist[k].op = "init") =>
    /\ createCalls # <<>>
    /\ inner # "none"
    /\ emitted >= 1 => (instance = emitted /\ Mounted(instance) /\ replay = instance)

\* init was the only call made and the creation has emitted a handle
C14_Witness ==
  /\ hist # <<>>
  /\ \A k \in DOMAIN hist : hist[k].op = "init"
  /\ emitted >= 1
  /\ instance = emitted

\* C15: with a handle published, focus(), blur() and clear() call the
\* current handle within the step of the call and subscribe nothing.
C15_PublishedForwardIsSynchronous ==
  [][ (instance # 0 /\ hist' # hist /\ hist'[Len(hist')].op \in ForwardOps) =>
        /\ instance = emitted
        /\ calls' = Append(calls, Call(instance, hist'[Len(hist')].op, Len(hist')))
        /\ observers' = observers
        /\ initObs' = initObs ]_vars

\* An operation was forwarded at once to the second, replacing handle
C15_Witness ==
  \E i \in DOMAIN calls :
    /\ calls[i].h = 2
    /\ calls[i].m \in ForwardOps
    /\ ~hist[calls[i].id].queued

\* The position of the mount of handle h
MountIdx(h) == CHOOSE i \in CallIdx(h, "mount") : TRUE

\* C17: for every emitted handle the tap callback has, once each and in this
\* order, destroyed the previously held handle (if any), registered the
\* 'ready', 'focus' and 'blur' handlers, mounted the handle and published
\* it; every forwarded call on the handle comes after that.
C17_TapOrder ==
  \A h \in Handles :
    /\ \A m \in {"on-ready", "on-focus", "on-blur", "mount"} :
         Cardinality(CallIdx(h, m)) = 1
    /\ LET mt == MountIdx(h) IN
         /\ mt >= 4
         /\ calls[mt - 3] = Call(h, "on-ready", 0)
         /\ calls[mt - 2] = Call(h, "on-focus", 0)
         /\ calls[mt - 1] = Call(h, "on-blur", 0)
         /\ IF h = 1
            THEN \A i \in 1..mt : calls[i].m # "destroy"
            ELSE /\ mt >= 5
                 /\ calls[mt - 4] = Call(h - 1, "destroy", 0)
                 /\ Cardinality({i \in CallIdx(h - 1, "destroy") : calls[i].id = 0}) = 1
         /\ \A i \in DOMAIN calls : (calls[i].h = h /\ calls[i].id # 0) => i > mt
    /\ instance >= h

\* Two handles were emitted; a queued operation ran on the first one
C17_Witness ==
  /\ emitted = 2
  /\ instance = 2
  /\ \E i \in DOMAIN calls : calls[i].h = 1 /\ calls[i].id # 0 /\ hist[calls[i].id].queued

\* The calls on the directive that were queued behind the creation
QueuedOps ==
  {k \in DOMAIN hist : hist[k].queued /\ hist[k].op \in ForwardOps \cup {"ngOnDestroy"}}

C20_InstanceNeverCleared ==
  /\ instance = emitted
  /\ \A k \in DOMAIN hist :
       (~hist[k].queued /\ hist[k].op \in ForwardOps \cup {"ngOnDestroy"}) =>
         Cardinality(CallsOfOp(k)) = 1

\* After an ngOnDestroy destroyed the published handle, a focus/blur/clear
\* and a further ngOnDestroy were forwarded to that same handle
C20_Witness ==
  \E i, j, l \in DOMAIN calls :
    /\ i < j /\ j < l
    /\ calls[i].h = instance /\ calls[j].h = instance /\ calls[l].h = instance
    /\ calls[i].m = "destroy" /\ calls[i].id # 0
    /\ calls[j].m \in ForwardOps
    /\ calls[l].m = "destroy" /\ calls[l].id # 0

====
